---- MODULE Spec2Model ----
(***************************************************************************)
(* Multi-tenant employee lifecycle: the usecase (internal/biz) on top of   *)
(* the normalized-email repository (employees + employee_emails tables).   *)
(*                                                                         *)
(* Every repository call of a usecase operation is one step, so calls of   *)
(* different callers interleave between repository calls.  A gorm          *)
(* Transaction is one step taken at its commit point: its statements are   *)
(* applied one after the other to the store, and the store is kept only    *)
(* when no statement failed.                                               *)
(***************************************************************************)
EXTENDS Integers, Sequences, FiniteSets, TLC

\* ------------------------------------------------------------------ bounds
MaxCalls == 2          \* usecase calls started in one behaviour

\* ------------------------------------------------------------ input sets
Procs == {1, 2}                       \* concurrent callers (goroutines)
Tenants == {"t1", "t2"}
Users == {"u1"}
Emails == {"a", "b", "c"}
Absent == "<absent>"                  \* ctx.Value(key) is not a string
Nil == 0                              \* uuid.Nil
NoEmployee == [id |-> Nil]            \* a nil *biz.Employee
FaultAt == 0 .. 4                     \* statement of a transaction that the
                                      \* storage fails (0: none fails)

Unread == "<unread>"                  \* a context value nothing has read yet

\* what a context may carry under tenant_id and under user_id
TenantValues == {Absent, ""} \cup Tenants
UserValues == {Absent, ""} \cup Users

\* ---------------------------------------------------------------- errors
OK == "OK"
ErrTenantNotFound == "TENANT_NOT_FOUND"               \* Unauthorized
ErrUserNotFound == "USER_NOT_FOUND"                   \* Unauthorized
ErrEmployeeNotFound == "EMPLOYEE_NOT_FOUND"
ErrEmployeeAlreadyExists == "EMPLOYEE_ALREADY_EXISTS"
ErrInvalidEmail == "INVALID_EMAIL"
ErrInvalidDateRange == "INVALID_DATE_RANGE"
ErrInvalidMerge == "INVALID_MERGE"
ErrPrimaryNotFound == "PRIMARY_NOT_FOUND"
ErrSecondaryNotFound == "SECONDARY_NOT_FOUND"
ErrCannotMergeSame == "CANNOT_MERGE_SAME"
ErrDuplicatedKey == "pq: duplicate key value violates unique constraint"
ErrForeignKey == "pq: violates foreign key constraint"
ErrRecordNotFound == "gorm: record not found"
ErrStorage == "storage failure"

VARIABLES
  db,            \* the two tables: [employees, employee_emails], sets of rows
  nextId,        \* source of uuid.New(): ids below it have been issued
  clock,         \* source of time.Now()
  publisher,     \* "nil" (NATS not configured) or "set"
  budget,        \* budget[p]: calls caller p may still start
  pc,            \* pc[p]: position of caller p inside its usecase call
  args,          \* args[p]: operation and arguments of p's call
  loc,           \* loc[p]: local variables of p's call
  res,           \* res[p]: what the call returned, once pc[p] = "done"
  events         \* events[p]: events handed to the publisher by p's call

vars == <<db, nextId, clock, publisher, budget, pc, args, loc, res, events>>

\* ------------------------------------------------------------ tenant scope
\* a GetTenantID that checks only that the value is a string
GetTenantID_EmptyAllowed(ctx) ==
  IF ctx.tenant = Absent
  THEN [v |-> "", err |-> ErrTenantNotFound]
  ELSE [v |-> ctx.tenant, err |-> OK]

GetTenantID(ctx) ==
  IF ctx.tenant = Absent \/ ctx.tenant = ""
  THEN [v |-> "", err |-> ErrTenantNotFound]
  ELSE [v |-> ctx.tenant, err |-> OK]

GetUserID(ctx) ==
  IF ctx.user = Absent \/ ctx.user = ""
  THEN [v |-> "", err |-> ErrUserNotFound]
  ELSE [v |-> ctx.user, err |-> OK]

\* ------------------------------------------------------------------ tables
\* gen_random_uuid() for a new employee_emails row: any id not in the table
NewRowId(rows) == CHOOSE n \in 1 .. (Cardinality(rows) + 1) :
                     \A r \in rows : r.id # n

\* INSERT INTO employees: PRIMARY KEY (id)
InsertEmployee(d, row) ==
  IF \E r \in d.employees : r.id = row.id
  THEN [db |-> d, err |-> ErrDuplicatedKey]
  ELSE [db |-> [d EXCEPT !.employees = @ \cup {row}], err |-> OK]

\* InsertEmail on a table whose unique index is on email alone
InsertEmail_GlobalUnique(d, employeeID, tenantID, email) ==
  IF ~ \E r \in d.employees : r.id = employeeID
  THEN [db |-> d, err |-> ErrForeignKey]
  ELSE IF \E r \in d.employee_emails : r.email = email
  THEN [db |-> d, err |-> ErrDuplicatedKey]
  ELSE [db |-> [d EXCEPT !.employee_emails = @ \cup
                   {[id |-> NewRowId(d.employee_emails),
                     employee_id |-> employeeID,
                     tenant_id |-> tenantID,
                     email |-> email]}],
        err |-> OK]

\* InsertEmail on a table that has no unique index on (tenant_id, email)
InsertEmail_NoUniqueIndex(d, employeeID, tenantID, email) ==
  IF ~ \E r \in d.employees : r.id = employeeID
  THEN [db |-> d, err |-> ErrForeignKey]
  ELSE [db |-> [d EXCEPT !.employee_emails = @ \cup
                   {[id |-> NewRowId(d.employee_emails),
                     employee_id |-> employeeID,
                     tenant_id |-> tenantID,
                     email |-> email]}],
        err |-> OK]

\* INSERT INTO employee_emails: fk_employee_emails_employee and the unique
\* index idx_employee_emails_tenant_email(tenant_id, email)
InsertEmail(d, employeeID, tenantID, email) ==
  IF ~ \E r \in d.employees : r.id = employeeID
  THEN [db |-> d, err |-> ErrForeignKey]
  ELSE IF \E r \in d.employee_emails : r.tenant_id = tenantID /\ r.email = email
  THEN [db |-> d, err |-> ErrDuplicatedKey]
  ELSE [db |-> [d EXCEPT !.employee_emails = @ \cup
                   {[id |-> NewRowId(d.employee_emails),
                     employee_id |-> employeeID,
                     tenant_id |-> tenantID,
                     email |-> email]}],
        err |-> OK]

\* DELETE FROM employees on a schema without ON DELETE CASCADE and without
\* the foreign key: the email rows stay
DeleteEmployeeRow_NoCascade(d, tenantID, id) ==
  LET hit == {r \in d.employees : r.id = id /\ r.tenant_id = tenantID}
  IN [db |-> [d EXCEPT !.employees = @ \ hit], rows |-> Cardinality(hit)]

\* DELETE FROM employees WHERE id = ? AND tenant_id = ?, with
\* ON DELETE CASCADE to employee_emails
DeleteEmployeeRow(d, tenantID, id) ==
  LET hit == {r \in d.employees : r.id = id /\ r.tenant_id = tenantID}
  IN [db |-> [employees |-> d.employees \ hit,
              employee_emails |-> {e \in d.employee_emails :
                                     ~ \E r \in hit : e.employee_id = r.id}],
      rows |-> Cardinality(hit)]

\* ------------------------------------------------------------- model.go
\* Preload("Emails"): the rows whose employee_id is the model's id
Preload(d, id) == {e \in d.employee_emails : e.employee_id = id}

\* a ToEntity that keeps one of the email records only
ToEntity_OneEmail(m, emailModels) ==
  [id |-> m.id, tenant_id |-> m.tenant_id,
   emails |-> IF emailModels = {} THEN {}
              ELSE {(CHOOSE e \in emailModels : TRUE).email},
   first_name |-> m.first_name, last_name |-> m.last_name,
   created_at |-> m.created_at, updated_at |-> m.updated_at]

ToEntity(m, emailModels) ==
  [id |-> m.id, tenant_id |-> m.tenant_id,
   emails |-> {e.email : e \in emailModels},
   first_name |-> m.first_name, last_name |-> m.last_name,
   created_at |-> m.created_at, updated_at |-> m.updated_at]

\* ----------------------------------------------------------- repository
\* GetByID whose WHERE clause leaves out tenant_id
GetByID_AnyTenant(d, tenantID, id) ==
  LET hit == {r \in d.employees : r.id = id}
  IN IF hit = {}
     THEN [emp |-> NoEmployee, err |-> ErrEmployeeNotFound]
     ELSE LET m == CHOOSE r \in hit : TRUE
          IN [emp |-> [id |-> m.id, tenant_id |-> m.tenant_id,
                       emails |-> {e.email : e \in
                          {x \in d.employee_emails : x.employee_id = m.id}},
                       first_name |-> m.first_name, last_name |-> m.last_name,
                       created_at |-> m.created_at,
                       updated_at |-> m.updated_at],
              err |-> OK]

GetByID(d, tenantID, id) ==
  LET hit == {r \in d.employees : r.id = id /\ r.tenant_id = tenantID}
  IN IF hit = {}
     THEN [emp |-> NoEmployee, err |-> ErrEmployeeNotFound]
     ELSE LET m == CHOOSE r \in hit : TRUE
          IN [emp |-> ToEntity(m, Preload(d, m.id)), err |-> OK]

\* CheckEmailExists that reports an address only when it is stored twice
CheckEmailExists_MoreThanOne(d, tenantID, email) ==
  Cardinality({e \in d.employee_emails :
                 e.email = email /\ e.tenant_id = tenantID}) > 1

\* CheckEmailExists whose WHERE clause leaves out tenant_id
CheckEmailExists_AnyTenant(d, tenantID, email) ==
  Cardinality({e \in d.employee_emails : e.email = email}) > 0

CheckEmailExists(d, tenantID, email) ==
  Cardinality({e \in d.employee_emails :
                 e.email = email /\ e.tenant_id = tenantID}) > 0

\* the email record GetByEmail and MergeEmployees look up first
FirstEmail(d, tenantID, email) ==
  LET hit == {e \in d.employee_emails :
                e.email = email /\ e.tenant_id = tenantID}
  IN IF hit = {}
     THEN [employee_id |-> Nil, err |-> ErrRecordNotFound]
     ELSE [employee_id |-> (CHOOSE e \in hit : TRUE).employee_id, err |-> OK]

\* employeeRepo.GetByEmail: the email record, then its employee
GetByEmail(d, tenantID, email) ==
  LET emailModel == FirstEmail(d, tenantID, email)
  IN IF emailModel.err = ErrRecordNotFound
     THEN [emp |-> NoEmployee, err |-> ErrEmployeeNotFound]
     ELSE GetByID(d, tenantID, emailModel.employee_id)

\* a Transaction that keeps what fn wrote before it returned an error
Transaction_NoRollback(d, r) == r.db

\* db.Transaction(fn): commit when fn returned nil, roll back otherwise
Transaction(d, r) == IF r.err = OK THEN r.db ELSE d

\* the loop over the email records inside Create and Update; k numbers the
\* statement, fault is the statement the storage fails
RECURSIVE InsertEmails(_, _, _, _, _, _)
InsertEmails(d, employeeID, tenantID, emails, k, fault) ==
  IF emails = <<>> THEN [db |-> d, err |-> OK]
  ELSE IF fault = k THEN [db |-> d, err |-> ErrStorage]
  ELSE LET r == InsertEmail(d, employeeID, tenantID, Head(emails))
       IN IF r.err # OK THEN r
          ELSE InsertEmails(r.db, employeeID, tenantID, Tail(emails),
                            k + 1, fault)

\* the function run inside Create's transaction
CreateTx(d, tenantID, id, employee, now, fault) ==
  IF fault = 1 THEN [db |-> d, err |-> ErrStorage]
  ELSE LET r == InsertEmployee(d, [id |-> id, tenant_id |-> tenantID,
                                   first_name |-> employee.first_name,
                                   last_name |-> employee.last_name,
                                   created_at |-> now, updated_at |-> now])
       IN IF r.err # OK THEN r
          ELSE InsertEmails(r.db, id, tenantID, employee.emails, 2, fault)

\* a Create that takes the lowest id no stored employee has, in place of a
\* new uuid
Create_ReusedID(d, tenantID, employee, fresh, now, fault) ==
  LET used == {r.id : r \in d.employees}
      id == CHOOSE i \in 1 .. fresh : i \notin used /\ \A j \in 1 .. (i - 1) : j \in used
      r == CreateTx(d, tenantID, id, employee, now, fault)
  IN [db |-> Transaction(d, r), err |-> r.err, id |-> id]

\* employeeRepo.Create up to the end of the transaction; the caller then
\* re-reads the record with GetByID
Create(d, tenantID, employee, fresh, now, fault) ==
  LET id == IF employee.id = Nil THEN fresh ELSE employee.id
      r == CreateTx(d, tenantID, id, employee, now, fault)
  IN [db |-> Transaction(d, r), err |-> r.err, id |-> id]

\* a Delete that does not look at RowsAffected
Delete_ZeroRowsOk(d, tenantID, id) ==
  [db |-> DeleteEmployeeRow(d, tenantID, id).db, err |-> OK]

\* employeeRepo.Delete: one statement
Delete(d, tenantID, id) ==
  LET r == DeleteEmployeeRow(d, tenantID, id)
  IN IF r.rows = 0 THEN [db |-> d, err |-> ErrEmployeeNotFound]
     ELSE [db |-> r.db, err |-> OK]

\* an UpdateTx that inserts the supplied emails without deleting the stored
\* ones first
UpdateTx_KeepEmails(d, tenantID, employee, now, fault) ==
  IF fault = 1 THEN [db |-> d, err |-> ErrStorage]
  ELSE
  LET hit == {r \in d.employees :
                r.id = employee.id /\ r.tenant_id = tenantID}
      upd(r) == [r EXCEPT
                   !.updated_at = now,
                   !.first_name = IF employee.first_name # ""
                                  THEN employee.first_name ELSE @,
                   !.last_name = IF employee.last_name # ""
                                 THEN employee.last_name ELSE @]
      d1 == [d EXCEPT !.employees = (@ \ hit) \cup {upd(r) : r \in hit}]
  IN IF hit = {} THEN [db |-> d1, err |-> ErrEmployeeNotFound]
     ELSE IF Len(employee.emails) > 0
     THEN IF fault = 2 THEN [db |-> d1, err |-> ErrStorage]
          ELSE InsertEmails(d1, employee.id, tenantID, employee.emails,
                            3, fault)
     ELSE [db |-> d1, err |-> OK]

\* the function run inside Update's transaction
UpdateTx(d, tenantID, employee, now, fault) ==
  IF fault = 1 THEN [db |-> d, err |-> ErrStorage]
  ELSE
  LET hit == {r \in d.employees :
                r.id = employee.id /\ r.tenant_id = tenantID}
      \* Updates(updateFields): updated_at always, a name only if provided
      upd(r) == [r EXCEPT
                   !.updated_at = now,
                   !.first_name = IF employee.first_name # ""
                                  THEN employee.first_name ELSE @,
                   !.last_name = IF employee.last_name # ""
                                 THEN employee.last_name ELSE @]
      d1 == [d EXCEPT !.employees = (@ \ hit) \cup {upd(r) : r \in hit}]
      \* Delete existing emails
      d2 == [d1 EXCEPT !.employee_emails =
               {e \in @ : ~ (e.employee_id = employee.id
                             /\ e.tenant_id = tenantID)}]
  IN IF hit = {} THEN [db |-> d1, err |-> ErrEmployeeNotFound]
     ELSE IF Len(employee.emails) > 0
     THEN IF fault = 2 THEN [db |-> d1, err |-> ErrStorage]
          ELSE InsertEmails(d2, employee.id, tenantID, employee.emails,
                            3, fault)
     ELSE [db |-> d1, err |-> OK]

\* employeeRepo.Update up to the end of the transaction
Update(d, tenantID, employee, now, fault) ==
  LET r == UpdateTx(d, tenantID, employee, now, fault)
  IN [db |-> Transaction(d, r), err |-> r.err]

\* a MergeTx that moves only the secondary email it looked up
MergeTx_OneEmail(d, tenantID, primaryEmail, secondaryEmail, fault) ==
  LET primaryEmailModel == FirstEmail(d, tenantID, primaryEmail)
      secondaryEmailModel == FirstEmail(d, tenantID, secondaryEmail)
      d1 == [d EXCEPT !.employee_emails =
               {IF e.email = secondaryEmail /\ e.tenant_id = tenantID
                THEN [e EXCEPT !.employee_id = primaryEmailModel.employee_id]
                ELSE e : e \in @}]
      d2 == DeleteEmployeeRow(d1, tenantID, secondaryEmailModel.employee_id).db
  IN IF fault \in 1 .. 4 THEN [db |-> d, err |-> ErrStorage]
     ELSE IF primaryEmailModel.err # OK
     THEN [db |-> d, err |-> primaryEmailModel.err]
     ELSE IF secondaryEmailModel.err # OK
     THEN [db |-> d, err |-> secondaryEmailModel.err]
     ELSE [db |-> d2, err |-> OK]

\* the function run inside MergeEmployees' transaction
MergeTx(d, tenantID, primaryEmail, secondaryEmail, fault) ==
  LET primaryEmailModel == FirstEmail(d, tenantID, primaryEmail)
      secondaryEmailModel == FirstEmail(d, tenantID, secondaryEmail)
      primaryEmployeeID == primaryEmailModel.employee_id
      secondaryEmployeeID == secondaryEmailModel.employee_id
      \* Transfer all emails from secondary employee to primary employee
      d1 == [d EXCEPT !.employee_emails =
               {IF e.employee_id = secondaryEmployeeID
                   /\ e.tenant_id = tenantID
                THEN [e EXCEPT !.employee_id = primaryEmployeeID]
                ELSE e : e \in @}]
      \* Delete secondary employee record
      d2 == DeleteEmployeeRow(d1, tenantID, secondaryEmployeeID).db
  IN IF fault = 1 THEN [db |-> d, err |-> ErrStorage]
     ELSE IF primaryEmailModel.err # OK
     THEN [db |-> d, err |-> primaryEmailModel.err]
     ELSE IF fault = 2 THEN [db |-> d, err |-> ErrStorage]
     ELSE IF secondaryEmailModel.err # OK
     THEN [db |-> d, err |-> secondaryEmailModel.err]
     ELSE IF fault = 3 THEN [db |-> d, err |-> ErrStorage]
     ELSE IF fault = 4 THEN [db |-> d1, err |-> ErrStorage]
     ELSE [db |-> d2, err |-> OK]

\* employeeRepo.MergeEmployees up to the end of the transaction; the caller
\* then looks the primary email up again and re-reads its employee
MergeEmployeesTx(d, tenantID, primaryEmail, secondaryEmail, fault) ==
  LET r == MergeTx(d, tenantID, primaryEmail, secondaryEmail, fault)
  IN [db |-> Transaction(d, r), err |-> r.err]

\* int32 arithmetic of ListFilter.Page and ListFilter.PageSize: the product
\* x * n modulo 2^32 as a signed 32-bit value, for 0 <= x < 2^31 and
\* 0 <= n < 2^15, computed on 16-bit halves
Int32Mul(x, n) ==
  LET hi == x \div 65536
      lo == x % 65536
      L == (lo * n) % 65536
      H == ((hi * n) + ((lo * n) \div 65536)) % 65536
  IN IF H >= 32768 THEN ((H - 65536) * 65536) + L ELSE (H * 65536) + L

\* the WHERE clause of List: tenant and the inclusive created_at bounds that
\* are set (0 stands for a nil *time.Time)
ListQuery(d, tenantID, createdAfter, createdBefore) ==
  {r \in d.employees :
     /\ r.tenant_id = tenantID
     /\ (createdAfter # 0 => r.created_at >= createdAfter)
     /\ (createdBefore # 0 => r.created_at <= createdBefore)}

\* ORDER BY created_at DESC
RECURSIVE OrderDesc(_)
OrderDesc(rows) ==
  IF rows = {} THEN <<>>
  ELSE LET m == CHOOSE r \in rows : \A q \in rows : q.created_at <= r.created_at
       IN <<m>> \o OrderDesc(rows \ {m})

\* OFFSET and LIMIT; gorm leaves out an OFFSET that is not positive
Page(rowSeq, offset, limit) ==
  LET skip == IF offset > 0 THEN offset ELSE 0
  IN SubSeq(rowSeq, skip + 1,
            IF skip + limit < Len(rowSeq) THEN skip + limit ELSE Len(rowSeq))

\* employeeRepo.List, first statement: Count
ListCount(d, tenantID, createdAfter, createdBefore) ==
  Cardinality(ListQuery(d, tenantID, createdAfter, createdBefore))

\* employeeRepo.List, second statement: Find with Preload("Emails")
ListFind(d, tenantID, createdAfter, createdBefore, page, pageSize) ==
  LET offset == Int32Mul(page - 1, pageSize)
      models == Page(OrderDesc(ListQuery(d, tenantID, createdAfter,
                                         createdBefore)),
                     offset, pageSize)
  IN [i \in 1 .. Len(models) |-> ToEntity(models[i], Preload(d, models[i].id))]

\* ------------------------------------------------------- calls and callers
\* Caller 1 draws its calls from the full input sets.  Caller 2 is the
\* concurrent request of SpecConc: it draws from the calls that change the
\* rows caller 1 works on.
EmailLists(p) ==
  IF p = 1 THEN {<<>>, <<"a">>, <<"c">>, <<"b", "c">>, <<"c", "c">>}
  ELSE {<<"c">>}

\* the optional fields of an update: email list, first name, last name
UpdateFields(p) ==
  IF p = 1
  THEN {<< <<>>, "", "" >>, << <<>>, "K", "" >>, << <<>>, "", "E" >>,
        << <<"a">>, "", "" >>, << <<"c">>, "", "" >>,
        << <<"b", "c">>, "K", "E" >>, << <<"c", "c">>, "", "" >>}
  ELSE {<< <<"c">>, "K", "" >>}

TenantsOf(p) == IF p = 1 THEN TenantValues ELSE Tenants

\* what the caller of a create put into the TenantID of the employee; the
\* ID is left unset, as the service builds the employee from the request
TenantIDInputs(p) == IF p = 1 THEN {"", "t2"} ELSE {""}

MergePairs(p) ==
  IF p = 1 THEN Emails \X Emails ELSE {<<"a", "b">>, <<"b", "a">>}

\* list filters: page, pageSize, createdAfter, createdBefore
Filters == {<<0, 0, 0, 0>>, <<2, 1, 0, 0>>, <<1, 500, 2, 3>>,
            <<1, 1, 3, 2>>, <<-1, -5, 2, 2>>, <<3, 100, 0, 3>>,
            <<1, 101, 2, 0>>, <<67108865, 64, 0, 0>>,
            <<21474838, 100, 0, 0>>}

NoArgs == [op |-> "none", ctx |-> [tenant |-> Absent, user |-> Unread],
           id |-> Nil, emails |-> <<>>, first_name |-> "", last_name |-> "",
           primaryEmail |-> "", secondaryEmail |-> "",
           page |-> 0, pageSize |-> 0, createdAfter |-> 0, createdBefore |-> 0,
           reqPage |-> 0, reqPageSize |-> 0, tenant_id |-> ""]

LocInit == [tenant |-> "", i |-> 0, id |-> Nil, existing |-> NoEmployee,
            updatedFields |-> {}, total |-> 0,
            repoCalls |-> 0, committed |-> FALSE]

NoRes == [err |-> "", emp |-> NoEmployee, employees |-> <<>>, total |-> 0]

Fail(err) == [NoRes EXCEPT !.err = err]

\* what a repository call hands back: the store it leaves and its results
Out(d, err) == [db |-> d, err |-> err, emp |-> NoEmployee, exists |-> FALSE,
                id |-> Nil, employees |-> <<>>, total |-> 0]

\* the *biz.Employee handed to repo.Create / repo.Update
EmployeeOf(a) == [id |-> a.id, tenant_id |-> a.tenant_id, emails |-> a.emails,
                  first_name |-> a.first_name, last_name |-> a.last_name]

\* employee.TenantID = tenantID, before repo.Create and repo.Update
SetTenantID(employee, tenantID) == [employee EXCEPT !.tenant_id = tenantID]

\* employeeRepo.GetByEmail, second half: the lookup error of the first half
GetByEmailErr(err) == IF err = ErrRecordNotFound THEN ErrEmployeeNotFound ELSE err

\* the repository method caller p is about to invoke, run on store d
RepoCall(p, d, fault) ==
  LET a == args[p]
      l == loc[p]
      t == l.tenant
      byID(id) == LET r == GetByID(d, t, id)
                  IN [Out(d, r.err) EXCEPT !.emp = r.emp]
      first(email) == LET r == FirstEmail(d, t, email)
                      IN [Out(d, r.err) EXCEPT !.id = r.employee_id]
      check(email) == [Out(d, OK) EXCEPT !.exists = CheckEmailExists(d, t, email)]
  IN CASE pc[p] = "create.check" -> check(a.emails[l.i])
       [] pc[p] = "create.create" ->
            LET r == Create(d, t, SetTenantID(EmployeeOf(a), t), nextId, clock,
                            fault)
            IN [Out(r.db, r.err) EXCEPT !.id = r.id]
       [] pc[p] = "create.getByID" -> byID(l.id)
       [] pc[p] = "update.getByID" -> byID(a.id)
       [] pc[p] = "update.check" -> check(a.emails[l.i])
       [] pc[p] = "update.update" ->
            LET r == Update(d, t, SetTenantID(EmployeeOf(a), t), clock, fault)
            IN Out(r.db, r.err)
       [] pc[p] = "update.reread" -> byID(a.id)
       [] pc[p] = "delete.getByID" -> byID(a.id)
       [] pc[p] = "delete.delete" ->
            LET r == Delete(d, t, a.id) IN Out(r.db, r.err)
       [] pc[p] = "get.getByID" -> byID(a.id)
       [] pc[p] = "getByEmail.first" -> first(a.primaryEmail)
       [] pc[p] = "getByEmail.getByID" -> byID(l.id)
       [] pc[p] = "list.count" ->
            [Out(d, OK) EXCEPT !.total =
               ListCount(d, t, a.createdAfter, a.createdBefore)]
       [] pc[p] = "list.find" ->
            [Out(d, OK) EXCEPT !.employees =
               ListFind(d, t, a.createdAfter, a.createdBefore,
                        a.page, a.pageSize)]
       [] pc[p] = "merge.primary.first" -> first(a.primaryEmail)
       [] pc[p] = "merge.primary.getByID" -> byID(l.id)
       [] pc[p] = "merge.secondary.first" -> first(a.secondaryEmail)
       [] pc[p] = "merge.secondary.getByID" -> byID(l.id)
       [] pc[p] = "merge.merge" ->
            LET r == MergeEmployeesTx(d, t, a.primaryEmail, a.secondaryEmail,
                                      fault)
            IN Out(r.db, r.err)
       [] pc[p] = "merge.first" -> first(a.primaryEmail)
       [] pc[p] = "merge.getByID" -> byID(l.id)
       [] OTHER -> Out(d, OK)

\* one step of caller p: new position, locals, store, result and events
Step(p, newpc, newloc, d, r, ev) ==
  /\ pc' = [pc EXCEPT ![p] = newpc]
  /\ loc' = [loc EXCEPT ![p] = newloc]
  /\ db' = d
  /\ res' = [res EXCEPT ![p] = r]
  /\ events' = [events EXCEPT ![p] = ev]

\* p's call returns r; ev are the events it handed to the publisher
Done(p, d, r, ev, l) == Step(p, "done", l, d, r, ev)

\* a repository method has been called
Called(l) == [l EXCEPT !.repoCalls = @ + 1]

\* an entry that works under the TenantID of the input employee when the
\* caller has set one
Start_TenantFromInput(p, op, tenant, a, newpc, l, r) ==
  LET ctx == [tenant |-> tenant, user |-> Unread]
      t == GetTenantID(ctx)
      used == IF a.tenant_id # "" THEN a.tenant_id ELSE t.v
  IN /\ pc[p] \in {"idle", "done"}
     /\ budget[p] > 0
     /\ budget' = [budget EXCEPT ![p] = @ - 1]
     /\ IF t.err # OK
        THEN /\ args' = [args EXCEPT ![p] = [NoArgs EXCEPT !.op = op, !.ctx = ctx]]
             /\ Step(p, "done", LocInit, db, Fail(t.err), <<>>)
        ELSE /\ args' = [args EXCEPT ![p] = [a EXCEPT !.op = op, !.ctx = ctx]]
             /\ Step(p, newpc, [l EXCEPT !.tenant = used], db, r, <<>>)
     /\ UNCHANGED <<nextId, clock, publisher>>

\* entry of a usecase operation: the tenant is resolved first, and the
\* arguments a are looked at only when that succeeded
Start(p, op, tenant, a, newpc, l, r) ==
  LET ctx == [tenant |-> tenant, user |-> Unread]
      t == GetTenantID(ctx)
  IN /\ pc[p] \in {"idle", "done"}
     /\ budget[p] > 0
     /\ budget' = [budget EXCEPT ![p] = @ - 1]
     /\ IF t.err # OK
        THEN /\ args' = [args EXCEPT ![p] = [NoArgs EXCEPT !.op = op, !.ctx = ctx]]
             /\ Step(p, "done", LocInit, db, Fail(t.err), <<>>)
        ELSE /\ args' = [args EXCEPT ![p] = [a EXCEPT !.op = op, !.ctx = ctx]]
             /\ Step(p, newpc, [l EXCEPT !.tenant = t.v], db, r, <<>>)
     /\ UNCHANGED <<nextId, clock, publisher>>

\* publisher.PublishEmployeeX(...) when GetEventPublisher() is not nil
PubOutcomes == {OK, "nats: publish failed"}

\* a publish that is retried once whatever the first attempt gave
Publish_Twice(pub, outcome, type, tenantID, userID, employee, extra) ==
  IF pub = "nil" THEN <<>>
  ELSE LET e == [type |-> type, tenantID |-> tenantID, userID |-> userID,
                 employee |-> employee, extra |-> extra, err |-> outcome]
       IN <<e, e>>

Publish(pub, outcome, type, tenantID, userID, employee, extra) ==
  IF pub = "nil" THEN <<>>
  ELSE << [type |-> type, tenantID |-> tenantID, userID |-> userID,
           employee |-> employee, extra |-> extra, err |-> outcome] >>

\* a tail that hands the publish error to the caller
Returned_PublishError(value, ev) ==
  IF ev # <<>> /\ ev[1].err # OK
  THEN [NoRes EXCEPT !.err = ev[1].err]
  ELSE [NoRes EXCEPT !.err = OK, !.emp = value]

\* the tail of a mutating operation: a publish error is logged, and the
\* repository's value is returned with a nil error
Returned(value, ev) == [NoRes EXCEPT !.err = OK, !.emp = value]

\* the last step of a mutating operation whose repository call gave value:
\* userID, _ := GetUserID(ctx), publish, return.  The context's user value
\* is drawn here, where it is read for the first time.
Finish(p, d, l, type, value, employee, extra) ==
  \E user \in UserValues, o \in PubOutcomes :
    LET ctx == [args[p].ctx EXCEPT !.user = user]
        ev == Publish(publisher, o, type, l.tenant, GetUserID(ctx).v,
                      employee, extra)
    IN /\ args' = [args EXCEPT ![p].ctx = ctx]
       /\ Done(p, d, Returned(value, ev), ev, Called(l))

\* ------------------------------------------------------- CreateEmployee
\* a CreateEmployee without the check for an empty email list: the loop over
\* the emails runs zero times and repo.Create is called
CreateEmployee_NoEmptyCheck(p) ==
  \E tenant \in TenantsOf(p), emails \in EmailLists(p) :
    LET a == [NoArgs EXCEPT !.emails = emails,
                            !.first_name = "J", !.last_name = "D"]
    IN IF Len(emails) = 0
       THEN Start(p, "create", tenant, a, "create.create", LocInit, NoRes)
       ELSE Start(p, "create", tenant, a, "create.check",
                  [LocInit EXCEPT !.i = 1], NoRes)

CreateEmployee(p) ==
  \E tenant \in TenantsOf(p), emails \in EmailLists(p),
     tenant_id \in TenantIDInputs(p) :
    LET a == [NoArgs EXCEPT !.emails = emails, !.tenant_id = tenant_id,
                            !.first_name = "J", !.last_name = "D"]
    IN IF Len(emails) = 0
       THEN Start(p, "create", tenant, a, "done", LocInit, Fail(ErrInvalidEmail))
       ELSE Start(p, "create", tenant, a, "create.check",
                  [LocInit EXCEPT !.i = 1], NoRes)

CreateEmployee_CheckEmailExists(p) ==
  /\ pc[p] = "create.check"
  /\ LET r == RepoCall(p, db, 0)
         l == Called(loc[p])
     IN IF r.exists
        THEN Done(p, db, Fail(ErrEmployeeAlreadyExists), <<>>, l)
        ELSE IF l.i < Len(args[p].emails)
        THEN Step(p, "create.check", [l EXCEPT !.i = @ + 1], db, NoRes, <<>>)
        ELSE Step(p, "create.create", l, db, NoRes, <<>>)
  /\ UNCHANGED <<nextId, clock, publisher, budget, args>>

CreateEmployee_Create(p) ==
  /\ pc[p] = "create.create"
  /\ \E fault \in FaultAt :
       LET r == RepoCall(p, db, fault)
           l == Called(loc[p])
       IN IF r.err # OK
          THEN Done(p, r.db, Fail(r.err), <<>>, l)
          ELSE Step(p, "create.getByID",
                    [l EXCEPT !.id = r.id, !.committed = TRUE],
                    r.db, NoRes, <<>>)
  /\ nextId' = nextId + 1
  /\ clock' = clock + 1
  /\ UNCHANGED <<publisher, budget, args>>

CreateEmployee_GetByID(p) ==
  /\ pc[p] = "create.getByID"
  /\ LET r == RepoCall(p, db, 0)
         l == loc[p]
     IN IF r.err # OK
        THEN Done(p, db, Fail(r.err), <<>>, l) /\ UNCHANGED args
        ELSE Finish(p, db, l, "created", r.emp, r.emp, "")
  /\ UNCHANGED <<nextId, clock, publisher, budget>>

\* ------------------------------------------------------- UpdateEmployee
\* a loop that skips no email: the emails existing owns are checked too
NextUnowned_CheckAll(emails, i, owned) == i

\* the next supplied email, from position i on, that existing does not own
RECURSIVE NextUnowned(_, _, _)
NextUnowned(emails, i, owned) ==
  IF i > Len(emails) THEN i
  ELSE IF emails[i] \in owned THEN NextUnowned(emails, i + 1, owned)
  ELSE i

\* the changed-field list of the Updated event
UpdatedFields(employee, existing) ==
  (IF Len(employee.emails) > 0 THEN {"emails"} ELSE {})
  \cup (IF employee.first_name # ""
           /\ employee.first_name # existing.first_name
        THEN {"first_name"} ELSE {})
  \cup (IF employee.last_name # ""
           /\ employee.last_name # existing.last_name
        THEN {"last_name"} ELSE {})

UpdateEmployee(p) ==
  \E tenant \in TenantsOf(p), id \in 1 .. (nextId - 1), f \in UpdateFields(p) :
    LET a == [NoArgs EXCEPT !.id = id, !.emails = f[1],
                            !.first_name = f[2], !.last_name = f[3]]
    IN Start(p, "update", tenant, a, "update.getByID", LocInit, NoRes)

\* after the existence check and after each uniqueness check: on to the
\* next email existing does not own, or to repo.Update
UpdateEmployee_Continue(p, l, from) ==
  LET a == args[p]
      j == NextUnowned(a.emails, from, l.existing.emails)
      l2 == [l EXCEPT !.updatedFields = UpdatedFields(EmployeeOf(a), l.existing)]
  IN IF j <= Len(a.emails)
     THEN Step(p, "update.check", [l EXCEPT !.i = j], db, NoRes, <<>>)
     ELSE Step(p, "update.update", l2, db, NoRes, <<>>)

UpdateEmployee_GetByID(p) ==
  /\ pc[p] = "update.getByID"
  /\ LET r == RepoCall(p, db, 0)
         l == Called(loc[p])
     IN IF r.err # OK THEN Done(p, db, Fail(r.err), <<>>, l)
        ELSE IF r.emp = NoEmployee
        THEN Done(p, db, Fail(ErrEmployeeNotFound), <<>>, l)
        ELSE UpdateEmployee_Continue(p, [l EXCEPT !.existing = r.emp], 1)
  /\ UNCHANGED <<nextId, clock, publisher, budget, args>>

UpdateEmployee_CheckEmailExists(p) ==
  /\ pc[p] = "update.check"
  /\ LET r == RepoCall(p, db, 0)
         l == Called(loc[p])
     IN IF r.exists
        THEN Done(p, db, Fail(ErrEmployeeAlreadyExists), <<>>, l)
        ELSE UpdateEmployee_Continue(p, l, l.i + 1)
  /\ UNCHANGED <<nextId, clock, publisher, budget, args>>

UpdateEmployee_Update(p) ==
  /\ pc[p] = "update.update"
  /\ \E fault \in FaultAt :
       LET r == RepoCall(p, db, fault)
           l == Called(loc[p])
       IN IF r.err # OK
          THEN Done(p, r.db, Fail(r.err), <<>>, l)
          ELSE Step(p, "update.reread", [l EXCEPT !.committed = TRUE],
                    r.db, NoRes, <<>>)
  /\ clock' = clock + 1
  /\ UNCHANGED <<nextId, publisher, budget, args>>

UpdateEmployee_Reread(p) ==
  /\ pc[p] = "update.reread"
  /\ LET r == RepoCall(p, db, 0)
         l == loc[p]
     IN IF r.err # OK
        THEN Done(p, db, Fail(r.err), <<>>, l) /\ UNCHANGED args
        ELSE Finish(p, db, l, "updated", r.emp, r.emp, l.updatedFields)
  /\ UNCHANGED <<nextId, clock, publisher, budget>>

\* ------------------------------------------------------- DeleteEmployee
DeleteEmployee(p) ==
  \E tenant \in TenantsOf(p), id \in 1 .. (nextId - 1) :
    Start(p, "delete", tenant, [NoArgs EXCEPT !.id = id],
          "delete.getByID", LocInit, NoRes)

DeleteEmployee_GetByID(p) ==
  /\ pc[p] = "delete.getByID"
  /\ LET r == RepoCall(p, db, 0)
         l == Called(loc[p])
     IN IF r.err # OK THEN Done(p, db, Fail(r.err), <<>>, l)
        ELSE IF r.emp = NoEmployee
        THEN Done(p, db, Fail(ErrEmployeeNotFound), <<>>, l)
        ELSE Step(p, "delete.delete", [l EXCEPT !.existing = r.emp],
                  db, NoRes, <<>>)
  /\ UNCHANGED <<nextId, clock, publisher, budget, args>>

DeleteEmployee_Delete(p) ==
  /\ pc[p] = "delete.delete"
  /\ LET r == RepoCall(p, db, 0)
         l == Called(loc[p])
     IN IF r.err # OK
        THEN Done(p, r.db, Fail(r.err), <<>>, l) /\ UNCHANGED args
        ELSE Finish(p, r.db, [l EXCEPT !.committed = TRUE], "deleted",
                    NoEmployee, l.existing, "")
  /\ UNCHANGED <<nextId, clock, publisher, budget>>

\* ---------------------------------------------------------- GetEmployee
GetEmployee(p) ==
  /\ p = 1
  /\ \E tenant \in TenantsOf(p), id \in 1 .. (nextId - 1) :
       Start(p, "get", tenant, [NoArgs EXCEPT !.id = id],
             "get.getByID", LocInit, NoRes)

\* the tail of the two read operations: a nil record is NotFound
Found(p, r, l) ==
  IF r.err # OK THEN Done(p, db, Fail(r.err), <<>>, l)
  ELSE IF r.emp = NoEmployee
  THEN Done(p, db, Fail(ErrEmployeeNotFound), <<>>, l)
  ELSE Done(p, db, [NoRes EXCEPT !.err = OK, !.emp = r.emp], <<>>, l)

GetEmployee_GetByID(p) ==
  /\ pc[p] = "get.getByID"
  /\ Found(p, RepoCall(p, db, 0), Called(loc[p]))
  /\ UNCHANGED <<nextId, clock, publisher, budget, args>>

\* --------------------------------------------------- GetEmployeeByEmail
GetEmployeeByEmail(p) ==
  /\ p = 1
  /\ \E tenant \in TenantsOf(p), email \in Emails :
       Start(p, "getByEmail", tenant, [NoArgs EXCEPT !.primaryEmail = email],
             "getByEmail.first", LocInit, NoRes)

\* employeeRepo.GetByEmail, first half: find the email record
GetEmployeeByEmail_First(p) ==
  /\ pc[p] = "getByEmail.first"
  /\ LET r == RepoCall(p, db, 0)
         l == Called(loc[p])
     IN IF r.err # OK THEN Done(p, db, Fail(GetByEmailErr(r.err)), <<>>, l)
        ELSE Step(p, "getByEmail.getByID", [l EXCEPT !.id = r.id],
                  db, NoRes, <<>>)
  /\ UNCHANGED <<nextId, clock, publisher, budget, args>>

\* employeeRepo.GetByEmail, second half: fetch the employee with all emails
GetEmployeeByEmail_GetByID(p) ==
  /\ pc[p] = "getByEmail.getByID"
  /\ Found(p, RepoCall(p, db, 0), loc[p])
  /\ UNCHANGED <<nextId, clock, publisher, budget, args>>

\* -------------------------------------------------------- ListEmployees
\* Set default pagination values
ClampPage(page) == IF page <= 0 THEN 1 ELSE page

\* ClampPageSize without the upper limit
ClampPageSize_NoCap(pageSize) == IF pageSize <= 0 THEN 20 ELSE pageSize

ClampPageSize(pageSize) ==
  IF pageSize <= 0 THEN 20 ELSE IF pageSize > 100 THEN 100 ELSE pageSize

\* a date range check that also rejects equal bounds
InvalidDateRange_NotStrict(createdAfter, createdBefore) ==
  createdAfter # 0 /\ createdBefore # 0 /\ createdAfter >= createdBefore

\* Business validation: date range check
InvalidDateRange(createdAfter, createdBefore) ==
  createdAfter # 0 /\ createdBefore # 0 /\ createdAfter > createdBefore

\* the filter is changed in place, so args holds the effective pagination;
\* reqPage and reqPageSize keep what the caller put into the filter
ListEmployees(p) ==
  /\ p = 1
  /\ \E tenant \in TenantsOf(p), f \in Filters :
       LET a == [NoArgs EXCEPT !.page = ClampPage(f[1]),
                               !.pageSize = ClampPageSize(f[2]),
                               !.reqPage = f[1], !.reqPageSize = f[2],
                               !.createdAfter = f[3], !.createdBefore = f[4]]
       IN IF InvalidDateRange(f[3], f[4])
          THEN Start(p, "list", tenant, a, "done", LocInit,
                     Fail(ErrInvalidDateRange))
          ELSE Start(p, "list", tenant, a, "list.count", LocInit, NoRes)

ListEmployees_Count(p) ==
  /\ pc[p] = "list.count"
  /\ LET r == RepoCall(p, db, 0)
     IN Step(p, "list.find", [Called(loc[p]) EXCEPT !.total = r.total],
             db, NoRes, <<>>)
  /\ UNCHANGED <<nextId, clock, publisher, budget, args>>

ListEmployees_Find(p) ==
  /\ pc[p] = "list.find"
  /\ LET r == RepoCall(p, db, 0)
     IN Done(p, db, [NoRes EXCEPT !.err = OK, !.employees = r.employees,
                                  !.total = loc[p].total], <<>>, loc[p])
  /\ UNCHANGED <<nextId, clock, publisher, budget, args>>

\* ------------------------------------------------------- MergeEmployees
\* a MergeEmployees that does not compare the two emails before its lookups
MergeEmployees_NoTextCheck(p) ==
  \E tenant \in TenantsOf(p), pair \in MergePairs(p) :
    LET a == [NoArgs EXCEPT !.primaryEmail = pair[1],
                            !.secondaryEmail = pair[2]]
    IN Start(p, "merge", tenant, a, "merge.primary.first", LocInit, NoRes)

MergeEmployees(p) ==
  \E tenant \in TenantsOf(p), pair \in MergePairs(p) :
    LET a == [NoArgs EXCEPT !.primaryEmail = pair[1],
                            !.secondaryEmail = pair[2]]
    IN IF pair[1] = pair[2]
       THEN Start(p, "merge", tenant, a, "done", LocInit, Fail(ErrInvalidMerge))
       ELSE Start(p, "merge", tenant, a, "merge.primary.first", LocInit, NoRes)

MergeEmployees_PrimaryFirst(p) ==
  /\ pc[p] = "merge.primary.first"
  /\ LET r == RepoCall(p, db, 0)
         l == Called(loc[p])
     IN IF r.err # OK THEN Done(p, db, Fail(GetByEmailErr(r.err)), <<>>, l)
        ELSE Step(p, "merge.primary.getByID", [l EXCEPT !.id = r.id],
                  db, NoRes, <<>>)
  /\ UNCHANGED <<nextId, clock, publisher, budget, args>>

MergeEmployees_PrimaryGetByID(p) ==
  /\ pc[p] = "merge.primary.getByID"
  /\ LET r == RepoCall(p, db, 0)
         l == loc[p]
     IN IF r.err # OK THEN Done(p, db, Fail(r.err), <<>>, l)
        ELSE IF r.emp = NoEmployee
        THEN Done(p, db, Fail(ErrPrimaryNotFound), <<>>, l)
        ELSE Step(p, "merge.secondary.first", [l EXCEPT !.existing = r.emp],
                  db, NoRes, <<>>)
  /\ UNCHANGED <<nextId, clock, publisher, budget, args>>

MergeEmployees_SecondaryFirst(p) ==
  /\ pc[p] = "merge.secondary.first"
  /\ LET r == RepoCall(p, db, 0)
         l == Called(loc[p])
     IN IF r.err # OK THEN Done(p, db, Fail(GetByEmailErr(r.err)), <<>>, l)
        ELSE Step(p, "merge.secondary.getByID", [l EXCEPT !.id = r.id],
                  db, NoRes, <<>>)
  /\ UNCHANGED <<nextId, clock, publisher, budget, args>>

\* the second lookup without the comparison of the two employees' ids
MergeEmployees_SecondaryGetByID_NoSameCheck(p) ==
  /\ pc[p] = "merge.secondary.getByID"
  /\ LET r == RepoCall(p, db, 0)
         l == loc[p]
     IN IF r.err # OK THEN Done(p, db, Fail(r.err), <<>>, l)
        ELSE IF r.emp = NoEmployee
        THEN Done(p, db, Fail(ErrSecondaryNotFound), <<>>, l)
        ELSE Step(p, "merge.merge", l, db, NoRes, <<>>)
  /\ UNCHANGED <<nextId, clock, publisher, budget, args>>

MergeEmployees_SecondaryGetByID(p) ==
  /\ pc[p] = "merge.secondary.getByID"
  /\ LET r == RepoCall(p, db, 0)
         l == loc[p]
         primary == l.existing
     IN IF r.err # OK THEN Done(p, db, Fail(r.err), <<>>, l)
        ELSE IF r.emp = NoEmployee
        THEN Done(p, db, Fail(ErrSecondaryNotFound), <<>>, l)
        ELSE IF primary.id = r.emp.id
        THEN Done(p, db, Fail(ErrCannotMergeSame), <<>>, l)
        ELSE Step(p, "merge.merge", l, db, NoRes, <<>>)
  /\ UNCHANGED <<nextId, clock, publisher, budget, args>>

MergeEmployees_Merge(p) ==
  /\ pc[p] = "merge.merge"
  /\ \E fault \in FaultAt :
       LET r == RepoCall(p, db, fault)
           l == Called(loc[p])
       IN IF r.err # OK
          THEN Done(p, r.db, Fail(r.err), <<>>, l)
          ELSE Step(p, "merge.first", [l EXCEPT !.committed = TRUE],
                    r.db, NoRes, <<>>)
  /\ UNCHANGED <<nextId, clock, publisher, budget, args>>

\* employeeRepo.MergeEmployees after the transaction: the primary email
\* record is looked up again
MergeEmployees_First(p) ==
  /\ pc[p] = "merge.first"
  /\ LET r == RepoCall(p, db, 0)
         l == loc[p]
     IN IF r.err # OK THEN Done(p, db, Fail(r.err), <<>>, l)
        ELSE Step(p, "merge.getByID", [l EXCEPT !.id = r.id], db, NoRes, <<>>)
  /\ UNCHANGED <<nextId, clock, publisher, budget, args>>

MergeEmployees_GetByID(p) ==
  /\ pc[p] = "merge.getByID"
  /\ LET r == RepoCall(p, db, 0)
         l == loc[p]
     IN IF r.err # OK
        THEN Done(p, db, Fail(r.err), <<>>, l) /\ UNCHANGED args
        ELSE Finish(p, db, l, "merged", r.emp, r.emp, args[p].secondaryEmail)
  /\ UNCHANGED <<nextId, clock, publisher, budget>>

\* ------------------------------------------------------------------ Init
\* a store left by earlier calls: two employees in t1, and one in t2 that
\* has the same address as the first
SeedStore ==
  [employees |->
     {[id |-> 1, tenant_id |-> "t1", first_name |-> "J", last_name |-> "D",
       created_at |-> 1, updated_at |-> 1],
      [id |-> 2, tenant_id |-> "t1", first_name |-> "K", last_name |-> "D",
       created_at |-> 2, updated_at |-> 2],
      [id |-> 3, tenant_id |-> "t2", first_name |-> "J", last_name |-> "D",
       created_at |-> 3, updated_at |-> 3]},
   employee_emails |->
     {[id |-> 1, employee_id |-> 1, tenant_id |-> "t1", email |-> "a"],
      [id |-> 2, employee_id |-> 2, tenant_id |-> "t1", email |-> "b"],
      [id |-> 3, employee_id |-> 3, tenant_id |-> "t2", email |-> "a"]}]

InitStore ==
  /\ db = SeedStore
  /\ nextId = Cardinality(db.employees) + 1
  /\ clock = Cardinality(db.employees) + 1
  /\ publisher \in {"nil", "set"}
  /\ pc = [p \in Procs |-> "idle"]
  /\ args = [p \in Procs |-> NoArgs]
  /\ loc = [p \in Procs |-> LocInit]
  /\ res = [p \in Procs |-> NoRes]
  /\ events = [p \in Procs |-> <<>>]

\* one caller making MaxCalls calls one after the other
Init ==
  /\ InitStore
  /\ budget = [p \in Procs |-> IF p = 1 THEN MaxCalls ELSE 0]

\* two requests, one call each, running concurrently
InitConc ==
  /\ InitStore
  /\ budget = [p \in Procs |-> 1]

Next ==
  \E p \in Procs :
    \/ CreateEmployee(p)
    \/ CreateEmployee_CheckEmailExists(p)
    \/ CreateEmployee_Create(p)
    \/ CreateEmployee_GetByID(p)
    \/ UpdateEmployee(p)
    \/ UpdateEmployee_GetByID(p)
    \/ UpdateEmployee_CheckEmailExists(p)
    \/ UpdateEmployee_Update(p)
    \/ UpdateEmployee_Reread(p)
    \/ DeleteEmployee(p)
    \/ DeleteEmployee_GetByID(p)
    \/ DeleteEmployee_Delete(p)
    \/ GetEmployee(p)
    \/ GetEmployee_GetByID(p)
    \/ GetEmployeeByEmail(p)
    \/ GetEmployeeByEmail_First(p)
    \/ GetEmployeeByEmail_GetByID(p)
    \/ ListEmployees(p)
    \/ ListEmployees_Count(p)
    \/ ListEmployees_Find(p)
    \/ MergeEmployees(p)
    \/ MergeEmployees_PrimaryFirst(p)
    \/ MergeEmployees_PrimaryGetByID(p)
    \/ MergeEmployees_SecondaryFirst(p)
    \/ MergeEmployees_SecondaryGetByID(p)
    \/ MergeEmployees_Merge(p)
    \/ MergeEmployees_First(p)
    \/ MergeEmployees_GetByID(p)

Spec == Init /\ [][Next]_vars

SpecConc == InitConc /\ [][Next]_vars

\* ================================================================ claims
\* the records of tenant t; the id of an email row is not part of what a
\* caller can observe
TenantRows(d, t) ==
  [employees |-> {r \in d.employees : r.tenant_id = t},
   employee_emails |->
     {[employee_id |-> e.employee_id, tenant_id |-> e.tenant_id,
       email |-> e.email] : e \in {x \in d.employee_emails : x.tenant_id = t}}]

\* the store with nothing but the records of tenant t
OnlyTenant(d, t) ==
  [employees |-> {r \in d.employees : r.tenant_id = t},
   employee_emails |-> {e \in d.employee_emails : e.tenant_id = t}]

Authorized(p) == args[p].ctx.tenant \in Tenants

\* C1: at most one employee_emails row exists for each (tenant_id, email),
\* in every state reached by interleaved create, update, delete and merge
\* calls.
C1_UniqueEmailPerTenant ==
  \A r1, r2 \in db.employee_emails :
    (r1.tenant_id = r2.tenant_id /\ r1.email = r2.email) => r1 = r2

\* a write of an address another caller inserted first has been refused
C1_Witness ==
  /\ pc[1] = "done" /\ pc[2] = "done"
  /\ args[1].op = "create" /\ args[2].op = "create"
  /\ res[2].err = OK /\ res[1].err = ErrDuplicatedKey
  /\ args[1].emails = <<"c">>

\* C2: a step of a call made under tenant T changes no row of another
\* tenant, and get, update and delete under T of an id that is an employee
\* of another tenant end with NotFound.
C2_Frame ==
  \A t \in Tenants :
    TenantRows(db, t) # TenantRows(db', t)
      => \E p \in Procs : pc[p] # pc'[p] /\ loc[p].tenant = t

C2_ForeignIdNotFound ==
  \A p \in Procs :
    (/\ pc[p] = "done"
     /\ Authorized(p)
     /\ args[p].op \in {"get", "update", "delete"}
     /\ \E r \in db.employees :
          r.id = args[p].id /\ r.tenant_id # args[p].ctx.tenant)
      => res[p].err = ErrEmployeeNotFound

C2_TenantIsolation == [][C2_Frame /\ C2_ForeignIdNotFound']_vars

\* an update under t1 of the employee of t2 has ended with NotFound, after
\* a call of t1 changed rows of t1
C2_Witness ==
  /\ pc[1] = "done" /\ args[1].op = "update" /\ args[1].ctx.tenant = "t1"
  /\ args[1].id = 3 /\ \E r \in db.employees : r.id = 3 /\ r.tenant_id = "t2"
  /\ res[1].err = ErrEmployeeNotFound
  /\ TenantRows(db, "t1") # TenantRows(SeedStore, "t1")

\* C3: what the pending repository call of a caller of tenant T returns, and
\* what it does to the records of T, are the same on the store and on the
\* store without the records of the other tenants.
C3_NonInterference ==
  \A p \in Procs :
    (pc[p] \notin {"idle", "done"}) =>
      \A fault \in FaultAt :
        LET t == loc[p].tenant
            r1 == RepoCall(p, db, fault)
            r2 == RepoCall(p, OnlyTenant(db, t), fault)
        IN /\ [r1 EXCEPT !.db = {}] = [r2 EXCEPT !.db = {}]
           /\ TenantRows(r1.db, t) = TenantRows(r2.db, t)

\* a caller of t2 is about to check an address that exists in t1 only
C3_Witness ==
  \E p \in Procs :
    /\ pc[p] = "create.check" /\ loc[p].tenant = "t2"
    /\ CheckEmailExists(db, "t1", args[p].emails[loc[p].i])
    /\ ~ CheckEmailExists(db, "t2", args[p].emails[loc[p].i])

\* the emails employee id owns in tenant t
EmailsOf(d, t, id) ==
  {e.email : e \in {x \in d.employee_emails :
                      x.employee_id = id /\ x.tenant_id = t}}

Range(seq) == {seq[i] : i \in 1 .. Len(seq)}

\* C4: when the merge transaction of two distinct employees P (primary) and
\* S (secondary) commits, every email P or S owned resolves to P, P owns
\* exactly the union of the two email sets, and S is NotFound by id; the
\* merged employee the call returns carries that union.
C4_MergeStep ==
  \A p \in Procs :
    (pc[p] = "merge.merge" /\ pc'[p] = "merge.first") =>
      LET t == loc[p].tenant
          P == FirstEmail(db, t, args[p].primaryEmail).employee_id
          S == FirstEmail(db, t, args[p].secondaryEmail).employee_id
          all == EmailsOf(db, t, P) \cup EmailsOf(db, t, S)
      IN P # S =>
           /\ \A e \in all : /\ GetByEmail(db', t, e).err = OK
                             /\ GetByEmail(db', t, e).emp.id = P
           /\ GetByID(db', t, P).emp.emails = all
           /\ GetByID(db', t, S).err = ErrEmployeeNotFound

C4_MergeReturn ==
  \A p \in Procs :
    (pc[p] = "merge.getByID" /\ pc'[p] = "done" /\ res'[p].err = OK) =>
      /\ res'[p].emp.id = loc[p].id
      /\ res'[p].emp.emails = EmailsOf(db, loc[p].tenant, loc[p].id)
      /\ {args[p].primaryEmail, args[p].secondaryEmail}
           \subseteq res'[p].emp.emails

C4_MergeResolvesToPrimary == [][C4_MergeStep /\ C4_MergeReturn]_vars

\* a merge has returned a primary that owns three emails, two of them taken
\* over from the secondary
C4_Witness ==
  \E p \in Procs :
    /\ pc[p] = "done" /\ args[p].op = "merge" /\ res[p].err = OK
    /\ args[p].primaryEmail = "a"
    /\ res[p].emp.emails = {"a", "b", "c"}
    /\ \A e \in {"a", "b", "c"} :
         GetByEmail(db, loc[p].tenant, e).emp.id = res[p].emp.id

\* C5: a Create, Update or MergeEmployees of the repository that ends with an
\* error leaves the store as it was before the call (a duplicate inside the
\* supplied email list included), and one that succeeds has written the
\* whole email list.
C5_FailedTxChangesNothing ==
  \A p \in Procs :
    (pc[p] \in {"create.create", "update.update", "merge.merge"}
       /\ pc'[p] = "done") => (res'[p].err # OK /\ db' = db)

C5_CommittedTxWroteAll ==
  \A p \in Procs :
    /\ (pc[p] = "create.create" /\ pc'[p] = "create.getByID")
         => EmailsOf(db', loc[p].tenant, loc'[p].id) = Range(args[p].emails)
    /\ (pc[p] = "update.update" /\ pc'[p] = "update.reread"
          /\ Len(args[p].emails) > 0)
         => EmailsOf(db', loc[p].tenant, args[p].id) = Range(args[p].emails)

C5_AllOrNothing == [][C5_FailedTxChangesNothing /\ C5_CommittedTxWroteAll]_vars

\* an update with the same new email twice in its list has failed on the
\* second insert, after its first statements ran, and the employee still
\* owns what it owned
C5_Witness ==
  \E p \in Procs :
    /\ pc[p] = "done" /\ args[p].op = "update"
    /\ args[p].emails = <<"c", "c">>
    /\ res[p].err = ErrDuplicatedKey
    /\ EmailsOf(db, loc[p].tenant, args[p].id) # {}
    /\ "c" \notin EmailsOf(db, loc[p].tenant, args[p].id)

NoDuplicates(seq) == Cardinality(Range(seq)) = Len(seq)

\* C6: when the write of a create or an update, reached after its uniqueness
\* pre-checks passed, meets an address that another caller has written to the
\* same tenant in the meantime, the caller receives AlreadyExists, not the
\* storage's own error.
C6_WriteStep ==
  \A p \in Procs :
    (/\ pc[p] \in {"create.create", "update.update"}
     /\ pc'[p] = "done"
     /\ NoDuplicates(args[p].emails)
     /\ \E e \in db.employee_emails :
          /\ e.tenant_id = loc[p].tenant
          /\ e.email \in Range(args[p].emails)
          /\ e.employee_id # args[p].id
     /\ res'[p].err \notin {ErrStorage, ErrEmployeeNotFound})
      => res'[p].err = ErrEmployeeAlreadyExists

C6_RaceLoserGetsAlreadyExists == [][C6_WriteStep]_vars

\* C7: a call whose context has no tenant, or an empty one, is never at a
\* repository step: it has ended with Unauthorized (TENANT_NOT_FOUND) and has
\* made no repository call, whichever of the seven operations it is.
C7_NoTenantNoRepository ==
  \A p \in Procs :
    (args[p].op # "none" /\ args[p].ctx.tenant \in {Absent, ""}) =>
      /\ pc[p] = "done"
      /\ res[p].err = ErrTenantNotFound
      /\ loc[p].repoCalls = 0
      /\ events[p] = <<>>

\* a list call with an empty tenant has ended Unauthorized
C7_Witness ==
  /\ pc[1] = "done" /\ args[1].op = "list" /\ args[1].ctx.tenant = ""
  /\ res[1].err = ErrTenantNotFound /\ loc[1].repoCalls = 0

\* the positions from which a mutating operation publishes and returns
FinalPcs == {"create.getByID", "update.reread", "delete.delete", "merge.getByID"}

\* C8: the last step of create, update, delete and merge, once its repository
\* call succeeded, returns a nil error and the repository's value and leaves
\* the store as the repository call left it, whether the publisher is nil,
\* publishes, or fails; an event is handed over only to a publisher that is
\* set.
C8_LastStep ==
  \A p \in Procs :
    (pc[p] \in FinalPcs /\ pc'[p] = "done" /\ RepoCall(p, db, 0).err = OK) =>
      /\ res'[p].err = OK
      /\ res'[p].emp = IF pc[p] = "delete.delete" THEN NoEmployee
                       ELSE RepoCall(p, db, 0).emp
      /\ db' = RepoCall(p, db, 0).db
      /\ (publisher = "nil" <=> events'[p] = <<>>)

C8_PublisherIndependence == [][C8_LastStep]_vars

\* a merge whose publish failed has returned the merged employee
C8_Witness ==
  \E p \in Procs :
    /\ pc[p] = "done" /\ args[p].op = "merge"
    /\ events[p] # <<>> /\ events[p][1].err # OK
    /\ res[p].err = OK /\ res[p].emp # NoEmployee

EventType(op) ==
  CASE op = "create" -> "created" [] op = "update" -> "updated"
    [] op = "delete" -> "deleted" [] op = "merge" -> "merged"
    [] OTHER -> "none"

\* C9: an event is handed to the publisher only in the last step of a call
\* whose repository mutation has committed, it is the one event of the call
\* and of the call's kind, and the call returns no error.
C9_PublishStep ==
  \A p \in Procs :
    (events'[p] # events[p] /\ events'[p] # <<>>) =>
      /\ pc[p] \in FinalPcs /\ pc'[p] = "done"
      /\ loc'[p].committed
      /\ Len(events'[p]) = 1
      /\ events'[p][1].type = EventType(args[p].op)
      /\ res'[p].err = OK

C9_ErrorMeansNoEvent ==
  \A p \in Procs :
    (pc[p] = "done" /\ res[p].err # OK) => events[p] = <<>>

C9_EventAfterCommitOnce == [][C9_PublishStep /\ C9_ErrorMeansNoEvent']_vars

\* a merge has handed its one event to the publisher after its transaction
\* committed
C9_Witness ==
  \E p \in Procs :
    /\ pc[p] = "done" /\ args[p].op = "merge" /\ loc[p].committed
    /\ Len(events[p]) = 1 /\ events[p][1].type = "merged"
    /\ events[p][1].employee = res[p].emp
    /\ GetByID(db, loc[p].tenant, res[p].emp.id).emp = res[p].emp

\* C10: a create under tenant T of addresses that no employee of T has, with
\* the other caller working under another tenant, succeeds unless the storage
\* itself failed: addresses of other tenants, written before or at the same
\* time, never make it fail.
C10_CrossTenantCreate ==
  \A p, q \in Procs :
    (/\ p # q
     /\ pc[p] = "done" /\ args[p].op = "create" /\ Authorized(p)
     /\ args[p].emails # <<>> /\ NoDuplicates(args[p].emails)
     /\ \A e \in Range(args[p].emails) :
          ~ CheckEmailExists(SeedStore, args[p].ctx.tenant, e)
     /\ args[q].ctx.tenant # args[p].ctx.tenant)
      => res[p].err \in {OK, ErrStorage}

\* both callers have created an employee with the same address, one in each
\* tenant
C10_Witness ==
  /\ pc[1] = "done" /\ pc[2] = "done"
  /\ args[1].op = "create" /\ args[2].op = "create"
  /\ args[1].emails = <<"c">> /\ args[2].emails = <<"c">>
  /\ args[1].ctx.tenant # args[2].ctx.tenant
  /\ res[1].err = OK /\ res[2].err = OK
  /\ CheckEmailExists(db, "t1", "c") /\ CheckEmailExists(db, "t2", "c")

\* tenant t has a row for address e
Taken(d, t, e) ==
  \E r \in d.employee_emails : r.tenant_id = t /\ r.email = e

\* C11: a create in tenant T whose email list contains an address T already
\* has ends with AlreadyExists at the pre-check of that address; the
\* pre-checks write no row and hand over no event, and with one caller no
\* create reaches its write with an address T already has.
C11_CheckStep ==
  \A p \in Procs :
    (pc[p] = "create.check" /\ (pc'[p] # pc[p] \/ loc'[p] # loc[p])) =>
      /\ db' = db
      /\ events'[p] = <<>>
      /\ (Taken(db, loc[p].tenant, args[p].emails[loc[p].i])
            => (pc'[p] = "done" /\ res'[p].err = ErrEmployeeAlreadyExists))

C11_NoWriteOfTaken ==
  \A p \in Procs :
    pc[p] = "create.create" =>
      \A e \in Range(args[p].emails) : ~ Taken(db, loc[p].tenant, e)

C11_SecondCreateRejected == [][C11_CheckStep /\ C11_NoWriteOfTaken]_vars

\* the employee a first create made in t2 owns "c", and a second create in t2
\* with "c" in its list has ended with AlreadyExists
C11_Witness ==
  /\ pc[1] = "done" /\ args[1].op = "create" /\ args[1].ctx.tenant = "t2"
  /\ args[1].emails = <<"b", "c">>
  /\ res[1].err = ErrEmployeeAlreadyExists /\ events[1] = <<>>
  /\ EmailsOf(db, "t2", 4) = {"c"}
  /\ Cardinality(db.employees) = 4 /\ Cardinality(db.employee_emails) = 4

\* C12: a merge whose primaryEmail and secondaryEmail are the same text has
\* ended with InvalidMerge and has made no repository call, whether or not an
\* employee of the tenant has that email; it is never at a repository step.
C12_SameTextInvalidMerge ==
  \A p \in Procs :
    (/\ args[p].op = "merge" /\ Authorized(p)
     /\ args[p].primaryEmail = args[p].secondaryEmail) =>
      /\ pc[p] = "done"
      /\ res[p].err = ErrInvalidMerge
      /\ loc[p].repoCalls = 0
      /\ events[p] = <<>>

\* merge("a", "a") in a tenant where an employee owns "a" has ended with
\* InvalidMerge
C12_Witness ==
  /\ pc[1] = "done" /\ args[1].op = "merge" /\ args[1].ctx.tenant = "t1"
  /\ args[1].primaryEmail = "a" /\ args[1].secondaryEmail = "a"
  /\ Taken(db, "t1", "a")
  /\ res[1].err = ErrInvalidMerge /\ loc[1].repoCalls = 0

\* the positions of a merge before its transaction
MergeLookupPcs == {"merge.primary.first", "merge.primary.getByID",
                   "merge.secondary.first", "merge.secondary.getByID"}

\* both emails of p's merge resolve, in tenant t of store d, to one employee
SameOwner(d, t, a) ==
  /\ FirstEmail(d, t, a.primaryEmail).err = OK
  /\ FirstEmail(d, t, a.secondaryEmail).err = OK
  /\ FirstEmail(d, t, a.primaryEmail).employee_id
       = FirstEmail(d, t, a.secondaryEmail).employee_id

\* C13: a merge of two different emails that one employee owns ends, after
\* its second lookup, with CannotMergeSame; its lookups change no row, and it
\* never reaches its transaction, so the employee and its emails stay as
\* they were.
C13_LookupStep ==
  \A p \in Procs :
    (pc[p] \in MergeLookupPcs /\ pc'[p] # pc[p]) =>
      /\ db' = db
      /\ events'[p] = <<>>
      /\ ((pc[p] = "merge.secondary.getByID"
             /\ SameOwner(db, loc[p].tenant, args[p]))
           => (pc'[p] = "done" /\ res'[p].err = ErrCannotMergeSame))

C13_NoTxOnSameOwner ==
  \A p \in Procs :
    pc[p] = "merge.merge" => ~ SameOwner(db, loc[p].tenant, args[p])

C13_CannotMergeSame == [][C13_LookupStep /\ C13_NoTxOnSameOwner]_vars

\* employee 2 owns "b" and "c", and merge("b", "c") has ended with
\* CannotMergeSame
C13_Witness ==
  /\ pc[1] = "done" /\ args[1].op = "merge" /\ args[1].ctx.tenant = "t1"
  /\ args[1].primaryEmail = "b" /\ args[1].secondaryEmail = "c"
  /\ res[1].err = ErrCannotMergeSame
  /\ GetByID(db, "t1", 2).err = OK
  /\ EmailsOf(db, "t1", 2) = {"b", "c"}

\* C14: the first lookup of a merge whose primaryEmail no employee of the
\* tenant has ends the call with PrimaryNotFound, and the second lookup of a
\* merge whose secondaryEmail no employee of the tenant has ends it with
\* SecondaryNotFound; neither changes a row.
C14_LookupStep ==
  \A p \in Procs :
    /\ (/\ pc[p] = "merge.primary.first" /\ pc'[p] # pc[p]
        /\ ~ Taken(db, loc[p].tenant, args[p].primaryEmail))
         => (/\ pc'[p] = "done"
             /\ res'[p].err = ErrPrimaryNotFound
             /\ db' = db)
    /\ (/\ pc[p] = "merge.secondary.first" /\ pc'[p] # pc[p]
        /\ ~ Taken(db, loc[p].tenant, args[p].secondaryEmail))
         => (/\ pc'[p] = "done"
             /\ res'[p].err = ErrSecondaryNotFound
             /\ db' = db)

C14_MergeNotFoundVariants == [][C14_LookupStep]_vars

\* C15: for every page and pageSize a caller with a tenant asks for, the
\* filter holds page 1 when page <= 0 and page otherwise, and pageSize 20 when
\* pageSize <= 0, 100 when pageSize > 100 and pageSize otherwise; the
\* repository is called with exactly these values, and the call ends with no
\* error other than the one of the date range check.
C15_EffectivePagination ==
  \A p \in Procs :
    (args[p].op = "list" /\ Authorized(p)) =>
      LET a == args[p]
          page == IF a.reqPage <= 0 THEN 1 ELSE a.reqPage
          pageSize == IF a.reqPageSize <= 0 THEN 20
                      ELSE IF a.reqPageSize > 100 THEN 100
                      ELSE a.reqPageSize
      IN /\ a.page = page /\ a.pageSize = pageSize
         /\ pc[p] = "list.find" =>
              RepoCall(p, db, 0).employees =
                ListFind(db, loc[p].tenant, a.createdAfter, a.createdBefore,
                         page, pageSize)
         /\ pc[p] = "done" =>
              res[p].err = IF a.createdAfter # 0 /\ a.createdBefore # 0
                              /\ a.createdAfter > a.createdBefore
                           THEN ErrInvalidDateRange ELSE OK

\* a list call that asked for page 1 with pageSize 500 has returned, and its
\* filter holds pageSize 100
C15_Witness ==
  /\ pc[1] = "done" /\ args[1].op = "list" /\ res[1].err = OK
  /\ args[1].reqPageSize = 500 /\ args[1].pageSize = 100
  /\ args[1].reqPage = 1 /\ args[1].page = 1

\* C16: a list call of a caller with a tenant has ended with InvalidDateRange
\* and no repository call when createdAfter and createdBefore are both set
\* and createdAfter is later than createdBefore; with equal bounds, one bound
\* or none it is at a repository step or has ended without error after its
\* one repository call.
C16_DateRange ==
  \A p \in Procs :
    (args[p].op = "list" /\ Authorized(p)) =>
      LET a == args[p]
          later == a.createdAfter # 0 /\ a.createdBefore # 0
                     /\ a.createdAfter > a.createdBefore
      IN IF later
         THEN /\ pc[p] = "done"
              /\ res[p].err = ErrInvalidDateRange
              /\ loc[p].repoCalls = 0
         ELSE /\ pc[p] \in {"list.count", "list.find", "done"}
              /\ pc[p] = "done" => (res[p].err = OK /\ loc[p].repoCalls = 1)

\* a list call with createdAfter 3 and createdBefore 2 has ended with
\* InvalidDateRange before any repository call
C16_Witness ==
  /\ pc[1] = "done" /\ args[1].op = "list" /\ Authorized(1)
  /\ args[1].createdAfter = 3 /\ args[1].createdBefore = 2
  /\ res[1].err = ErrInvalidDateRange /\ loc[1].repoCalls = 0

\* C17: once a create has returned an employee, fetching the returned id in
\* the same tenant, with nothing done in between, gives an employee whose
\* emails are the created list as a set, whose names are the created names,
\* whose tenant is the creator's and whose createdAt and updatedAt are set;
\* and a get returns exactly what the repository holds under the id.
C17_CreateThenGet ==
  \A p \in Procs :
    /\ (pc[p] = "done" /\ args[p].op = "create" /\ res[p].err = OK) =>
         LET g == GetByID(db, args[p].ctx.tenant, res[p].emp.id)
         IN /\ g.err = OK
            /\ g.emp.id = res[p].emp.id
            /\ g.emp.emails = Range(args[p].emails)
            /\ g.emp.first_name = args[p].first_name
            /\ g.emp.last_name = args[p].last_name
            /\ g.emp.tenant_id = args[p].ctx.tenant
            /\ g.emp.created_at > 0 /\ g.emp.updated_at > 0
    /\ (pc[p] = "done" /\ args[p].op = "get" /\ res[p].err = OK) =>
         /\ res[p].emp = GetByID(db, args[p].ctx.tenant, args[p].id).emp
         /\ res[p].emp.id = args[p].id
         /\ res[p].emp.emails = EmailsOf(db, args[p].ctx.tenant, args[p].id)

\* the employee created in t2 with emails b and c has been fetched by its id
C17_Witness ==
  /\ pc[1] = "done" /\ args[1].op = "get" /\ args[1].ctx.tenant = "t2"
  /\ args[1].id = 4 /\ res[1].err = OK
  /\ res[1].emp.emails = {"b", "c"}
  /\ res[1].emp.first_name = "J" /\ res[1].emp.last_name = "D"
  /\ res[1].emp.tenant_id = "t2"
  /\ res[1].emp.created_at = 4 /\ res[1].emp.updated_at = 4

\* C18: a call whose context carries a tenant but no user, or an empty one,
\* has ended with Unauthorized (USER_NOT_FOUND) and has made no repository
\* call.
C18_NoUserNoRepository ==
  \A p \in Procs :
    (Authorized(p) /\ args[p].ctx.user \in {Absent, ""}) =>
      /\ pc[p] = "done"
      /\ res[p].err = ErrUserNotFound
      /\ loc[p].repoCalls = 0

\* C19: in every state each employee_emails row refers to an employees row
\* of the same tenant, and once a delete has succeeded no email row refers to
\* the deleted id, whatever update or merge ran at the same time.
C19_EmailsHaveOwner ==
  /\ \A e \in db.employee_emails :
       \E r \in db.employees :
         r.id = e.employee_id /\ r.tenant_id = e.tenant_id
  /\ \A p \in Procs :
       (pc[p] = "done" /\ args[p].op = "delete" /\ res[p].err = OK) =>
         ~ \E e \in db.employee_emails : e.employee_id = args[p].id

\* an update of employee 1 passed its checks, then lost its row to a delete
\* of employee 1 that ran in between
C19_Witness ==
  /\ pc[1] = "done" /\ pc[2] = "done"
  /\ args[1].op = "delete" /\ args[2].op = "update"
  /\ args[1].id = 1 /\ args[2].id = 1
  /\ args[1].ctx.tenant = "t1" /\ args[2].ctx.tenant = "t1"
  /\ res[1].err = OK
  /\ res[2].err = ErrEmployeeNotFound /\ loc[2].repoCalls = 3

\* C20: in every state each employees row has at least one employee_emails
\* row, whatever creates, updates, merges and deletes ran and however they
\* interleaved; and a create with an empty email list has ended with
\* InvalidEmail and no repository call.
C20_EmployeeHasEmail ==
  /\ \A r \in db.employees :
       \E e \in db.employee_emails :
         e.employee_id = r.id /\ e.tenant_id = r.tenant_id
  /\ \A p \in Procs :
       (args[p].op = "create" /\ Authorized(p) /\ args[p].emails = <<>>) =>
         /\ pc[p] = "done"
         /\ res[p].err = ErrInvalidEmail
         /\ loc[p].repoCalls = 0

\* a create with no email has ended with InvalidEmail while the other caller
\* merged two employees of the same tenant
C20_Witness ==
  /\ pc[1] = "done" /\ args[1].op = "create" /\ args[1].ctx.tenant = "t1"
  /\ args[1].emails = <<>>
  /\ res[1].err = ErrInvalidEmail /\ loc[1].repoCalls = 0
  /\ pc[2] = "done" /\ args[2].op = "merge" /\ res[2].err = OK
  /\ Cardinality(db.employees) = 2

\* the ids of the stored employees
Ids(d) == {r.id : r \in d.employees}

\* C21: an id that was given out and has no employee row (the employee was
\* deleted, or absorbed as the secondary of a merge) never has one again;
\* a getById, update or delete of such an id changes no stored row and ends
\* with NotFound.
C21_Stays ==
  \A id \in 1 .. (nextId - 1) : id \notin Ids(db) => id \notin Ids(db')

C21_NotFound ==
  \A p \in Procs :
    (/\ pc[p] \notin {"idle", "done"} /\ pc'[p] # pc[p]
     /\ args[p].op \in {"get", "update", "delete"}
     /\ args[p].id \in 1 .. (nextId - 1) /\ args[p].id \notin Ids(db))
      => /\ db' = db
         /\ pc'[p] = "done" => res'[p].err = ErrEmployeeNotFound

C21_TerminalStates == [][C21_Stays /\ C21_NotFound]_vars

\* employee 2 of the seed store is gone after the caller's first call, and
\* the caller's update of id 2 has ended with NotFound
C21_Witness ==
  /\ pc[1] = "done" /\ budget[1] = 0
  /\ args[1].op = "update" /\ args[1].id = 2
  /\ 2 \in Ids(SeedStore) /\ 2 \notin Ids(db)
  /\ res[1].err = ErrEmployeeNotFound

\* C22: when the repository's update of employee id commits, a name that was
\* supplied empty keeps its stored value and a supplied name is stored; with
\* no email supplied the employee's email set stays as it was, and with
\* emails supplied it becomes exactly the supplied set, the previous
\* addresses outside it being owned by nobody in the tenant; no other
\* employee and no other employee's email changes.
C22_UpdateStep ==
  \A p \in Procs :
    LET t == loc[p].tenant
        id == args[p].id
        old == {r \in db.employees : r.id = id /\ r.tenant_id = t}
        new == {r \in db'.employees : r.id = id /\ r.tenant_id = t}
        others(d) == {[employee_id |-> e.employee_id,
                       tenant_id |-> e.tenant_id, email |-> e.email] :
                        e \in {x \in d.employee_emails : x.employee_id # id}}
    IN (pc[p] = "update.update" /\ pc'[p] = "update.reread") =>
         /\ new # {}
         /\ \A o \in old : \A n \in new :
              /\ n.first_name = IF args[p].first_name = "" THEN o.first_name
                                ELSE args[p].first_name
              /\ n.last_name = IF args[p].last_name = "" THEN o.last_name
                               ELSE args[p].last_name
         /\ IF args[p].emails = <<>>
            THEN EmailsOf(db', t, id) = EmailsOf(db, t, id)
            ELSE /\ EmailsOf(db', t, id) = Range(args[p].emails)
                 /\ \A e \in EmailsOf(db, t, id) \ Range(args[p].emails) :
                      ~ Taken(db', t, e)
         /\ db'.employees \ new = db.employees \ old
         /\ others(db') = others(db)

C22_UpdateChangesWhatWasSupplied == [][C22_UpdateStep]_vars

\* an update of employee 1 with the one address c and no name has ended:
\* the employee owns c alone, nobody owns a, and the names are the stored ones
C22_Witness ==
  /\ pc[1] = "done" /\ args[1].op = "update" /\ args[1].id = 1
  /\ args[1].emails = <<"c">> /\ args[1].first_name = ""
  /\ res[1].err = OK /\ loc[1].committed
  /\ EmailsOf(db, "t1", 1) = {"c"} /\ ~ Taken(db, "t1", "a")
  /\ \E r \in db.employees :
       r.id = 1 /\ r.first_name = "J" /\ r.last_name = "D"

\* C23: the created_at of a stored employee never changes; the updated_at of
\* an employee is later than it was after every committed update of it,
\* whatever fields were supplied, and after every committed merge in which
\* it is the primary side.
C23_CreatedAtKept ==
  \A o \in db.employees : \A n \in db'.employees :
    n.id = o.id => n.created_at = o.created_at

C23_UpdateRefreshes ==
  \A p \in Procs :
    (pc[p] = "update.update" /\ pc'[p] = "update.reread") =>
      \A o \in db.employees : \A n \in db'.employees :
        (n.id = args[p].id /\ o.id = args[p].id)
          => n.updated_at > o.updated_at

C23_MergeRefreshes ==
  \A p \in Procs :
    (pc[p] = "merge.merge" /\ pc'[p] = "merge.first") =>
      LET primary == FirstEmail(db, loc[p].tenant,
                                args[p].primaryEmail).employee_id
      IN \A o \in db.employees : \A n \in db'.employees :
           (n.id = primary /\ o.id = primary)
             => n.updated_at > o.updated_at

C23_Timestamps ==
  [][C23_CreatedAtKept /\ C23_UpdateRefreshes /\ C23_MergeRefreshes]_vars

\* C24: when a create commits, the new employees row and each of its
\* employee_emails rows carry the tenant of the caller's scope, whatever
\* TenantID the input employee had; no step changes the tenant_id of a
\* stored employee, and every email row has the tenant_id of its owner.
C24_CreateStep ==
  \A p \in Procs :
    (pc[p] = "create.create" /\ pc'[p] = "create.getByID") =>
      /\ \E r \in db'.employees :
           r.id = loc'[p].id /\ r.tenant_id = args[p].ctx.tenant
      /\ \A e \in db'.employee_emails :
           e.employee_id = loc'[p].id => e.tenant_id = args[p].ctx.tenant

C24_TenantKept ==
  /\ \A o \in db.employees : \A n \in db'.employees :
       n.id = o.id => n.tenant_id = o.tenant_id
  /\ \A e \in db'.employee_emails : \A n \in db'.employees :
       n.id = e.employee_id => n.tenant_id = e.tenant_id

C24_TenantFromScope == [][C24_CreateStep /\ C24_TenantKept]_vars

\* a create under t1 of an employee whose input TenantID was t2 has ended:
\* the employee and its email are rows of t1
C24_Witness ==
  /\ pc[1] = "done" /\ args[1].op = "create" /\ res[1].err = OK
  /\ args[1].ctx.tenant = "t1" /\ args[1].tenant_id = "t2"
  /\ \E r \in db.employees : r.id = res[1].emp.id /\ r.tenant_id = "t1"
  /\ \E e \in db.employee_emails :
       e.employee_id = res[1].emp.id /\ e.tenant_id = "t1"

\* C25: when the two callers each merge the employees that own a and b in
\* t1, with the same or with swapped arguments and in any interleaving, at
\* least one of employees 1 and 2 is stored in every state, and each of a
\* and b is owned by a stored employee.
C25_ConcurrentMergeKeepsData ==
  (\A p \in Procs :
     /\ args[p].op = "merge" /\ args[p].ctx.tenant = "t1"
     /\ {args[p].primaryEmail, args[p].secondaryEmail} = {"a", "b"})
    => /\ \E r \in db.employees : r.id \in {1, 2}
       /\ \A e \in {"a", "b"} :
            \E x \in db.employee_emails : \E r \in db.employees :
              /\ x.email = e /\ x.tenant_id = "t1"
              /\ r.id = x.employee_id /\ r.tenant_id = "t1"

\* C26: when the repository's mergeEmployees is invoked with the pair of
\* emails of a merge that has committed before, it returns an error and
\* leaves every stored row as it was.
C26_ReinvokeStep ==
  \A p, q \in Procs :
    (/\ p # q
     /\ pc[p] = "merge.merge" /\ pc'[p] # pc[p]
     /\ args[q].op = "merge" /\ loc[q].committed
     /\ loc[q].tenant = loc[p].tenant
     /\ args[q].primaryEmail = args[p].primaryEmail
     /\ args[q].secondaryEmail = args[p].secondaryEmail)
      => /\ db' = db
         /\ pc'[p] = "done" /\ res'[p].err # OK

C26_ReinvokedMergeFails == [][C26_ReinvokeStep]_vars

\* C27: a create, update or merge that has returned an error to its caller
\* has committed no transaction, also when the other caller removed the
\* record between the commit and the re-read that follows it.
C27_ErrorMeansNothingCommitted ==
  \A p \in Procs :
    (/\ pc[p] = "done" /\ args[p].op \in {"create", "update", "merge"}
     /\ res[p].err # OK)
      => ~ loc[p].committed

\* a supplied email of caller p's update is owned, in the tenant, by another
\* employee than the updated one
ForeignEmail(p) ==
  \E x \in db.employee_emails :
    /\ x.tenant_id = loc[p].tenant /\ x.employee_id # args[p].id
    /\ x.email \in Range(args[p].emails)

\* C28: with one caller at a time, an update of a stored employee ends with
\* AlreadyExists, and without a write, exactly when a supplied email is
\* owned by another employee of the tenant; it never reaches its write with
\* such an email, and the emails the updated employee owns are never handed
\* to the uniqueness check.
C28_UpdateStep ==
  \A p \in Procs :
    LET t == loc[p].tenant
        stored == \E r \in db.employees :
                    r.id = args[p].id /\ r.tenant_id = t
    IN /\ (args[p].op = "update" /\ pc[p] \notin {"idle", "done"}
            /\ pc'[p] = "done" /\ stored) =>
            /\ res'[p].err = ErrEmployeeAlreadyExists <=> ForeignEmail(p)
            /\ ForeignEmail(p) => db' = db /\ events'[p] = <<>>
       /\ (pc[p] = "update.update" /\ pc'[p] # pc[p]) => ~ ForeignEmail(p)
       /\ pc'[p] = "update.check" =>
            args'[p].emails[loc'[p].i] \notin EmailsOf(db', t, args'[p].id)

C28_UpdateEmailOfOther == [][C28_UpdateStep]_vars

\* employee 2 owns b and c after an update that supplied both, b being its
\* own, and the update of employee 1 with c has ended with AlreadyExists
C28_Witness ==
  /\ pc[1] = "done" /\ args[1].op = "update" /\ args[1].id = 1
  /\ args[1].emails = <<"c">> /\ res[1].err = ErrEmployeeAlreadyExists
  /\ EmailsOf(db, "t1", 2) = {"b", "c"} /\ EmailsOf(db, "t1", 1) = {"a"}

\* C29: the Deleted event handed to the publisher carries the names and the
\* email set the employee has in the store at the moment of its deletion,
\* whatever update or merge of that employee the other caller ran.
C29_DeleteStep ==
  \A p \in Procs :
    (pc[p] = "delete.delete" /\ pc'[p] = "done" /\ events'[p] # <<>>) =>
      LET stored == GetByID(db, loc[p].tenant, args[p].id).emp
          sent == events'[p][1].employee
      IN /\ events'[p][1].type = "deleted"
         /\ sent.id = stored.id
         /\ sent.first_name = stored.first_name
         /\ sent.last_name = stored.last_name
         /\ sent.emails = stored.emails

C29_DeletedEventSnapshot == [][C29_DeleteStep]_vars

\* C30: the changed-field list of an Updated event holds "emails",
\* "first_name" or "last_name" exactly when a non-empty value was supplied
\* for that field and it differs from the record the update loaded.
C30_ChangedFields ==
  \A p \in Procs :
    (/\ pc[p] = "done" /\ args[p].op = "update"
     /\ events[p] # <<>> /\ events[p][1].type = "updated")
      => LET a == args[p]
             existing == loc[p].existing
         IN events[p][1].extra =
              (IF a.emails # <<>> /\ Range(a.emails) # existing.emails
               THEN {"emails"} ELSE {})
              \cup (IF a.first_name # "" /\ a.first_name # existing.first_name
                    THEN {"first_name"} ELSE {})
              \cup (IF a.last_name # "" /\ a.last_name # existing.last_name
                    THEN {"last_name"} ELSE {})

\* C31: when both callers have run a delete of the same employee, stored in
\* their tenant when the calls began, one of them has returned success and
\* the other NotFound; the one that failed has handed nothing to the
\* publisher, and the one that succeeded has handed over one Deleted event
\* of that employee when a publisher is set.
C31_OneDeleteWins ==
  (/\ \A p \in Procs :
        /\ pc[p] = "done" /\ args[p].op = "delete" /\ Authorized(p)
   /\ args[1].id = args[2].id
   /\ args[1].ctx.tenant = args[2].ctx.tenant
   /\ \E r \in SeedStore.employees :
        r.id = args[1].id /\ r.tenant_id = args[1].ctx.tenant)
    => \E w, l \in Procs :
         /\ w # l
         /\ res[w].err = OK
         /\ res[l].err = ErrEmployeeNotFound
         /\ events[l] = <<>>
         /\ IF publisher = "nil" THEN events[w] = <<>>
            ELSE /\ Len(events[w]) = 1
                 /\ events[w][1].type = "deleted"
                 /\ events[w][1].employee.id = args[w].id

\* both callers had loaded employee 1 before either deleted it: caller 1's
\* delete removed the row and published, caller 2's found no row
C31_Witness ==
  /\ pc[1] = "done" /\ pc[2] = "done"
  /\ args[1].op = "delete" /\ args[2].op = "delete"
  /\ args[1].id = 1 /\ args[2].id = 1
  /\ args[1].ctx.tenant = "t1" /\ args[2].ctx.tenant = "t1"
  /\ loc[1].existing # NoEmployee /\ loc[2].existing # NoEmployee
  /\ res[1].err = OK /\ res[2].err = ErrEmployeeNotFound
  /\ Len(events[1]) = 1 /\ events[2] = <<>>
  /\ 1 \notin Ids(db)

\* the employees rows of tenant t whose created_at is within the bounds of
\* caller p's filter that are set
Matching(p) ==
  {r \in db.employees :
     /\ r.tenant_id = loc[p].tenant
     /\ (args[p].createdAfter = 0 \/ r.created_at >= args[p].createdAfter)
     /\ (args[p].createdBefore = 0 \/ r.created_at <= args[p].createdBefore)}

\* C32: a list that has returned holds only employees of the caller's tenant
\* with created_at within the inclusive bounds that are set; the employee at
\* position i is the one with (page-1)*pageSize + i - 1 newer matching
\* employees, so the result is ordered by created_at descending and starts
\* after (page-1)*pageSize entries; it holds pageSize employees or all that
\* are left, and total is the number of all matching employees.
C32_ListResult ==
  \A p \in Procs :
    (pc[p] = "done" /\ args[p].op = "list" /\ res[p].err = OK) =>
      LET out == res[p].employees
          \* (page-1)*pageSize, or a number past the last matching employee
          \* when the product is larger than that
          skip == IF args[p].page - 1 > Cardinality(Matching(p))
                  THEN Cardinality(Matching(p)) + 1
                  ELSE (args[p].page - 1) * args[p].pageSize
          left == Cardinality(Matching(p)) - skip
      IN /\ res[p].total = Cardinality(Matching(p))
         /\ Len(out) = IF left <= 0 THEN 0
                       ELSE IF left < args[p].pageSize THEN left
                       ELSE args[p].pageSize
         /\ \A i \in 1 .. Len(out) :
              \E r \in Matching(p) :
                /\ r.id = out[i].id
                /\ out[i].created_at = r.created_at
                /\ Cardinality({q \in Matching(p) :
                                  q.created_at > r.created_at}) = skip + i - 1

\* C33: for the page >= 1 and the pageSize in 1..100 a list hands to the
\* repository, the offset the repository computes as (page-1)*pageSize in
\* int32 arithmetic is not negative and is the product of the two numbers:
\* it is a multiple of pageSize whose quotient by pageSize is page-1.
C33_OffsetNeverWraps ==
  \A p \in Procs :
    (pc[p] = "list.find" /\ args[p].page >= 1
     /\ args[p].pageSize \in 1 .. 100) =>
      LET offset == Int32Mul(args[p].page - 1, args[p].pageSize)
      IN /\ offset >= 0
         /\ offset % args[p].pageSize = 0
         /\ offset \div args[p].pageSize = args[p].page - 1

====
